---- MODULE Spec2Model ----
(***************************************************************************)
(* The callback bridge of rust-rocksdb: the compaction-guard bridge        *)
(* (src/src/compaction_guard.rs), the block-cipher / encrypted-env bridge  *)
(* (src/src/encryption.rs), and Options with its compaction filter         *)
(* (src/src/rocksdb_options.rs).                                           *)
(*                                                                         *)
(* The native engine (librocksdb_sys: the crocksdb_* / rocksdb_* entry     *)
(* points, the database and its compaction) and rocksdb::Env live outside  *)
(* these files; they are modelled from the specification and named         *)
(* Crocksdb_* / Rocksdb_* / Env_* / DB_* / Native*.                        *)
(*                                                                         *)
(* A behaviour follows one capability implementation `cap` that the        *)
(* application supplies (a CompactionGuard or an IBlockCipher, drawn in    *)
(* Init) from its registration to its teardown.  The two bridges share no  *)
(* state but the process itself.                                           *)
(*                                                                         *)
(* Spec            both bridges, registration to teardown                  *)
(* SpecCipher      IBlockCipher::encrypt / decrypt as functions of a block *)
(* SpecThreads     cipher trampolines called from several native threads   *)
(* SpecOptions     Options::set_compaction_filter and the drop of Options  *)
(* SpecCompaction  a range compaction that asks a registered guard         *)
(* SpecEncryptedDb a database on the env of create_ctr_encrypted_env       *)
(***************************************************************************)
EXTENDS Integers, Sequences, FiniteSets, TLC

\* ------------------------------------------------------------ bounds
MaxGuards == 2       \* longest guard list an implementation returns
MaxClones == 1       \* Arc clones of an implementation the application keeps
MaxCalls == 2        \* get_guards_in_range invocations
MaxBlockSize == 2    \* largest block_size of a SimpleBlockCipher
TailLen == 2         \* native bytes modelled behind a cipher block
MaxManualDestroys == 1  \* destroy_encrypted_env calls
MaxOps == 2          \* encrypt / decrypt applications to one block
MaxThreads == 2      \* native threads calling the cipher trampolines
MaxFilters == 3      \* compaction filters created for one Options
MaxL0Files == 2      \* level-0 files before a compaction
MaxWalRecords == 2   \* puts between two flushes
MaxOpens == 2        \* DB::open calls on one path

\* ------------------------------------------------- program constants
NULL == 0            \* 0 as *mut *mut u8
PtrSize == 8         \* mem::size_of::<*mut u8>()
U32Size == 4         \* mem::size_of::<u32>()

\* ------------------------------------------------------------ values
\* Guard keys: "", "k", "k5" (the key of tests/cases/test_compaction_guard.rs).
Keys == { <<>>, <<107>>, <<107, 53>> }

RECURSIVE SeqsUpTo(_, _)
SeqsUpTo(S, n) ==
    IF n = 0 THEN { <<>> }
    ELSE LET shorter == SeqsUpTo(S, n - 1)
         IN  shorter \cup { Append(s, x) : s \in { t \in shorter : Len(t) = n - 1 }, x \in S }

GuardLists == SeqsUpTo(Keys, MaxGuards)

\* The [start, end) arguments the engine passes.
RangeArgs == { [start |-> <<>>, end |-> <<>>], [start |-> <<107>>, end |-> <<107, 53>>] }

Uninit == "uninit"
Unset == "unset"

Ptr(blk, off) == [blk |-> blk, off |-> off]
NullPtr == Ptr(NULL, 0)

VARIABLES
    proc,       \* the process: "running", or how it ended
    cap,        \* the capability implementation the application supplies
    guard,      \* the registered guard: proxy, handle, native object, Arc count
    heap,       \* the native allocator's blocks, by address
    calls,      \* the get_guards_in_range invocations so far
    env,        \* the encrypted env: proxy, handles, native objects
    cipherCall, \* the latest cipher trampoline invocation
    trial,      \* a block taken through IBlockCipher::encrypt / decrypt
    mem,        \* native memory holding the threads' buffers
    threads,    \* native threads inside a cipher trampoline
    opts,       \* an Options value, its native options and its filter handles
    lsm,        \* the engine's files by level, and the guards it was given
    db          \* a database on the encrypted env: memtable, files, last get

vars == << proc, cap, guard, heap, calls, env, cipherCall, trial, mem, threads, opts, lsm, db >>

\* ---------------------------------------------- capability implementations
\* trait CompactionGuard: SimpleGuards returns a clone of its list; any other
\* implementation may panic.
SimpleGuards(guards) == [kind |-> "list", guards |-> guards]
PanickingGuards == [kind |-> "panic", guards |-> <<>>]
GuardImpls == { SimpleGuards(g) : g \in GuardLists } \cup { PanickingGuards }

\* CompactionGuard::get_guards_in_range(&self, start, end)
impl_get_guards_in_range(impl, start, end) ==
    IF impl.kind = "panic" THEN [panic |-> TRUE, guards |-> <<>>]
    ELSE [panic |-> FALSE, guards |-> impl.guards]

\* A panic that leaves an extern "C" fn: the build either aborts the process
\* or lets the unwind run into the native caller's frames.
PanicOutcomes == { "aborted", "unwound" }

NoGuard ==
    [ proxy |-> "none", handle |-> "none", native |-> "none", strong |-> 0,
      destructorRuns |-> 0, nativeDestroyCalls |-> 0, derefAfterFree |-> FALSE ]

\* trait IBlockCipher, and its two implementations in
\* tests/cases/test_encryption.rs.
SimpleBlockCipher(bs) == [kind |-> "simple", block_size |-> bs]
CTR16BlockCipher == [kind |-> "ctr16", block_size |-> 16]
CipherImpls == { SimpleBlockCipher(bs) : bs \in 1 .. MaxBlockSize } \cup { CTR16BlockCipher }

CIPHER16 == << 16, 15, 14, 13, 12, 11, 10, 9, 8, 7, 6, 5, 4, 3, 2, 1 >>

\* a ^ b on u8
RECURSIVE xor_bits(_, _, _)
xor_bits(a, b, n) ==
    IF n = 0 THEN 0
    ELSE ((a + b) % 2) + 2 * xor_bits(a \div 2, b \div 2, n - 1)
xor_u8(a, b) == xor_bits(a, b, 8)

\* IBlockCipher::block_size(&self)
block_size(c) == IF c.kind = "ctr16" THEN 16 ELSE c.block_size

\* IBlockCipher::encrypt(&self, data)
encrypt(c, data) ==
    IF c.kind = "ctr16"
    THEN [i \in 1 .. Len(data) |-> xor_u8(data[i], CIPHER16[i])]
    ELSE [i \in 1 .. Len(data) |-> IF data[i] = 255 THEN 0 ELSE data[i] + 1]

\* Mutant: the decrement stops at 0 instead of wrapping to 255.
decrypt_saturating(c, data) ==
    IF c.kind = "ctr16"
    THEN encrypt(c, data)
    ELSE [i \in 1 .. Len(data) |-> IF data[i] = 0 THEN 0 ELSE data[i] - 1]

\* IBlockCipher::decrypt(&self, data)
decrypt(c, data) ==
    IF c.kind = "ctr16"
    THEN encrypt(c, data)
    ELSE [i \in 1 .. Len(data) |-> IF data[i] = 0 THEN 255 ELSE data[i] - 1]

\* Native memory at the data pointer: the block and the TailLen bytes behind it.
BytePatterns == { "zero", "max", "ramp" }
Region(bs, pat) ==
    [i \in 1 .. bs + TailLen |->
        IF pat = "zero" THEN 0 ELSE IF pat = "max" THEN 255 ELSE (i * 37) % 256]

NoEnv ==
    [ proxy |-> "none", handle |-> "none",
      cipher |-> "none", provider |-> "none", env |-> "none",
      cipherDestroyCalls |-> 0, providerDestroyCalls |-> 0, envDestroyCalls |-> 0,
      manualDestroys |-> 0, destroyRuns |-> 0, derefAfterFree |-> FALSE,
      order |-> <<>> ]

\* The buffers a block cipher is tried on: every block of one repeated byte,
\* and every block over the bytes at and next to the wrap-around.
EdgeBytes == { 0, 1, 127, 128, 254, 255 }
Blocks(c) ==
    { [i \in 1 .. block_size(c) |-> b] : b \in 0 .. 255 }
        \cup { [i \in 1 .. block_size(c) |-> (i * 37) % 256] }
        \cup ( IF block_size(c) <= MaxBlockSize
               THEN [1 .. block_size(c) -> EdgeBytes] ELSE {} )

NoTrial == [ops |-> <<>>, vals |-> <<>>]

\* A database on the encrypted env before DB::open.  Values are blocks of
\* block_size() bytes, <<>> stands for "no value"; `wal` and `sst` hold the
\* bytes as the env stored them, `put` the value last put for each key.
DbKeys == { "key1", "key2" }
NoValue == <<>>
\* the result of the get that has just returned, if one has
NoGet == [key |-> "none", value |-> NoValue, expected |-> NoValue, from |-> "none", opens |-> 0]
NoDb ==
    [ composition |-> "none", open |-> FALSE, opens |-> 0,
      memtable |-> [k \in DbKeys |-> NoValue],
      wal |-> <<>>,
      sst |-> [k \in DbKeys |-> NoValue],
      put |-> [k \in DbKeys |-> NoValue],
      got |-> NoGet ]

\* The engine's column family before any write: the memtable, the level-0
\* files in flush order, the level-1 files, and the record of the last
\* compaction.
NoLsm ==
    [ memtable |-> {}, l0 |-> <<>>, l1 |-> {}, compactions |-> 0, consumed |-> 0,
      guards |-> <<>>, inputs |-> [l0 |-> <<>>, l1 |-> {}] ]

\* Options before Options::new(): `filter` and the native pointer are handle
\* ids, 0 for None / null.
NoOptions ==
    [ state |-> "none", native |-> "none", nativeFilter |-> 0, filter |-> 0,
      handles |-> <<>>, pc |-> "idle", pending |-> 0,
      result |-> "none", filterBefore |-> 0 ]

\* name: S where S: Into<Vec<u8>>: "f", and "f\0g" with an interior NUL
FilterNames == { << 102 >>, << 102, 0, 103 >> }

NoCall == [op |-> "none", size |-> 0, before |-> <<>>, after |-> <<>>]

Init ==
    /\ proc = "running"
    /\ cap \in GuardImpls \cup CipherImpls
    /\ guard = NoGuard
    /\ heap = <<>>
    /\ calls = <<>>
    /\ env = NoEnv
    /\ cipherCall = NoCall
    /\ trial = NoTrial
    /\ mem = <<>>
    /\ threads = <<>>
    /\ opts = NoOptions
    /\ lsm = NoLsm
    /\ db = NoDb

\* ------------------------------------------------- guard: registration
\* crocksdb_compactionguard_create(state, destructor, clean_guard, get_guards):
\* the native object remembers the context and the three trampolines.
Crocksdb_compactionguard_create(g) ==
    [g EXCEPT !.native = "live"]

\* new_compaction_gurad(g: Arc<CompactionGuard>): the Arc moves into a boxed
\* proxy whose raw pointer is given to the native create call; the handle is
\* returned.  `clones` other Arcs to the same implementation stay with the
\* application.
new_compaction_gurad(clones) ==
    /\ proc = "running"
    /\ cap \in GuardImpls
    /\ guard.proxy = "none"
    /\ guard' = [ Crocksdb_compactionguard_create(
                     [NoGuard EXCEPT !.proxy = "boxed", !.strong = 1 + clones])
                   EXCEPT !.handle = "held" ]
    /\ UNCHANGED << proc, cap, heap, calls, env, cipherCall, trial, mem, threads, opts, lsm, db >>

\* The application drops one of the Arc clones it kept (std::sync::Arc).
AppDropClone ==
    /\ proc = "running"
    /\ guard.proxy # "none"
    /\ guard.strong > (IF guard.proxy = "boxed" THEN 1 ELSE 0)
    /\ guard' = [guard EXCEPT !.strong = @ - 1]
    /\ UNCHANGED << proc, cap, heap, calls, env, cipherCall, trial, mem, threads, opts, lsm, db >>

\* ------------------------------------------------- guard: teardown
\* extern "C" fn destructor(guard): Box::from_raw drops the proxy, and with it
\* the proxy's Arc reference to the implementation.
destructor(g) ==
    [g EXCEPT !.proxy = "freed",
              !.strong = IF g.proxy = "boxed" THEN @ - 1 ELSE @,
              !.destructorRuns = @ + 1]

\* crocksdb_compactionguard_destory(guard): the native object is deleted and
\* its destructor invokes the registered destroy trampoline on the context.
Crocksdb_compactionguard_destory(g) ==
    destructor([g EXCEPT !.native = "destroyed", !.nativeDestroyCalls = @ + 1])

\* Mutant: the handle is dropped without the native destroy call.
CompactionGuardHandle_drop_forget ==
    /\ proc = "running"
    /\ guard.handle = "held"
    /\ guard' = [guard EXCEPT !.handle = "dropped"]
    /\ UNCHANGED << proc, cap, heap, calls, env, cipherCall, trial, mem, threads, opts, lsm, db >>

\* impl Drop for CompactionGuardHandle
CompactionGuardHandle_drop ==
    /\ proc = "running"
    /\ guard.handle = "held"
    /\ guard' = [Crocksdb_compactionguard_destory(guard) EXCEPT !.handle = "dropped"]
    /\ UNCHANGED << proc, cap, heap, calls, env, cipherCall, trial, mem, threads, opts, lsm, db >>

\* ------------------------------------------------- guard: the allocator
LibcFamily == "libc"

\* Mutant: the pointer array is kept between invocations and handed out again.
libc_malloc_cached(st, site, size, elem, failing) ==
    LET n      == Len(st.log) + 1
        cached == { a \in 1 .. Len(st.heap) :
                        st.heap[a].site = "res" /\ st.heap[a].size >= size }
        reuse  == site = "res" /\ cached # {}
        addr   == IF n \in failing THEN NULL
                  ELSE IF reuse THEN CHOOSE a \in cached : TRUE
                  ELSE Len(st.heap) + 1
        blk    == [ site |-> site, family |-> LibcFamily, size |-> size,
                    data |-> [i \in 1 .. (size \div elem) |-> Uninit],
                    frees |-> <<>> ]
    IN  [ st EXCEPT !.heap = IF addr = NULL \/ reuse THEN @ ELSE Append(@, blk),
                    !.log = Append(@, [site |-> site, size |-> size, addr |-> addr]),
                    !.last = addr ]

\* libc::malloc(size), the n-th allocator call of this invocation: it returns
\* null when n is in `failing`, else a fresh block of `size` bytes seen as
\* size / elem uninitialised slots.  Every call is logged.
libc_malloc(st, site, size, elem, failing) ==
    LET n    == Len(st.log) + 1
        addr == IF n \in failing THEN NULL ELSE Len(st.heap) + 1
        blk  == [ site |-> site, family |-> LibcFamily, size |-> size,
                  data |-> [i \in 1 .. (size \div elem) |-> Uninit],
                  frees |-> <<>> ]
    IN  [ st EXCEPT !.heap = IF addr = NULL THEN @ ELSE Append(@, blk),
                    !.log = Append(@, [site |-> site, size |-> size, addr |-> addr]),
                    !.last = addr ]

\* libc::free(m)
libc_free(h, m) ==
    [h EXCEPT ![m].frees = Append(@, LibcFamily)]

\* Mutant: the block is released with Rust's allocator instead of libc's.
clean_guard_rust(h, m) ==
    [h EXCEPT ![m].frees = Append(@, "rust")]

\* extern "C" fn clean_guard(m)
clean_guard(h, m) ==
    libc_free(h, m)

\* ------------------------------------------------- guard: get_guards_in_range
\* guards.len() as u32, key.len() as u32: the low 32 bits, taken as two 16-bit
\* halves.
as_u32(n) == (n % 65536) + 65536 * ((n \div 65536) % 65536)

\* Mutant: the empty result takes the allocating branch.
has_guards_always(total) == total >= 0

\* if *total > 0
has_guards(total) == total > 0

\* Mutant: the assertion is missing.
key_is_empty_unchecked(key) == FALSE

\* assert!(!key.is_empty())
key_is_empty(key) == Len(key) = 0

\* libc::malloc(key.len())
key_alloc_size(key) == Len(key)

\* Mutant: only the first byte of the key is copied, the rest is zeroed.
libc_memcpy_first_byte(h, dst, key) ==
    [h EXCEPT ![dst].data = [i \in DOMAIN @ |-> IF i = 1 THEN key[i] ELSE 0]]

\* libc::memcpy(cloned, key.as_ptr(), key.len())
libc_memcpy(h, dst, key) ==
    [h EXCEPT ![dst].data = [i \in DOMAIN @ |-> IF i <= Len(key) THEN key[i] ELSE @[i]]]

\* *p = v for a pointer p into a block; p.add(1)
store(h, p, v) == [h EXCEPT ![p.blk].data[p.off + 1] = v]
ptr_add(p, n) == IF p.blk = NULL THEN p ELSE Ptr(p.blk, p.off + n)
\* Mutant: the advanced cursor is returned as it is.
ptr_sub_forgotten(p, n) == p

\* res.sub(*total as usize)
ptr_sub(p, n) == IF p.blk = NULL THEN p ELSE Ptr(p.blk, p.off - n)

\* Mutant: a second length array is allocated for the out-parameter.
alloc_arrays_twice(st, total, failing) ==
    LET a == libc_malloc(st, "res", total * PtrSize, PtrSize, failing)
        b == libc_malloc(a, "lens", total * U32Size, U32Size, failing)
        c == libc_malloc(b, "lens", total * U32Size, U32Size, failing)
    IN  [ c EXCEPT !.res = Ptr(a.last, 0), !.l = Ptr(b.last, 0),
                   !.lens = Ptr(c.last, 0) ]

\* let mut res = malloc(total * size_of::<*mut u8>()); let mut l = malloc(total *
\* size_of::<u32>()); *lens = l;
alloc_arrays(st, total, failing) ==
    LET a == libc_malloc(st, "res", total * PtrSize, PtrSize, failing)
        b == libc_malloc(a, "lens", total * U32Size, U32Size, failing)
    IN  [ b EXCEPT !.res = Ptr(a.last, 0), !.l = Ptr(b.last, 0),
                   !.lens = Ptr(b.last, 0) ]

\* One pass of `for key in guards.drain(..)`.  A store or memcpy through a null
\* base faults: address 0 is unmapped and the address is only known at run time.
drain_step(st, key, failing) ==
    IF key_is_empty(key) THEN [st EXCEPT !.stop = "panic"]
    ELSE
    LET a == libc_malloc(st, "key", key_alloc_size(key), 1, failing)
        cloned == a.last
    IN  IF cloned = NULL THEN [a EXCEPT !.stop = "fault", !.nullAccess = TRUE]
        ELSE
        LET b == [a EXCEPT !.heap = libc_memcpy(@, cloned, key)]
        IN  IF b.res.blk = NULL THEN [b EXCEPT !.stop = "fault", !.nullAccess = TRUE]
            ELSE
            LET c == [b EXCEPT !.heap = store(@, b.res, cloned), !.res = ptr_add(@, 1)]
            IN  IF c.l.blk = NULL THEN [c EXCEPT !.stop = "fault", !.nullAccess = TRUE]
                ELSE [c EXCEPT !.heap = store(@, c.l, as_u32(Len(key))),
                               !.l = ptr_add(@, 1)]

RECURSIVE drain_loop(_, _, _)
drain_loop(st, keys, failing) ==
    IF keys = <<>> \/ st.stop # "none" THEN st
    ELSE drain_loop(drain_step(st, Head(keys), failing), Tail(keys), failing)

\* The body of the trampoline once the implementation has returned `guards`.
marshal(h, guards, failing) ==
    LET st0 == [ heap |-> h, log |-> <<>>, last |-> NULL, res |-> NullPtr,
                 l |-> NullPtr, lens |-> Unset, total |-> as_u32(Len(guards)),
                 stop |-> "none", nullAccess |-> FALSE, ret |-> Unset ]
    IN  IF has_guards(st0.total)
        THEN LET st1 == drain_loop(alloc_arrays(st0, st0.total, failing), guards, failing)
             IN  IF st1.stop = "none"
                 THEN [st1 EXCEPT !.ret = ptr_sub(st1.res, st1.total)]
                 ELSE st1
        ELSE [st0 EXCEPT !.ret = NullPtr]

\* extern "C" fn get_guards_in_range(guard, start, start_len, end, end_len, total,
\* lens): invoked by the engine on a live native guard object.
get_guards_in_range(range, failing, panicOutcome) ==
    /\ proc = "running"
    /\ guard.native = "live"
    /\ Len(calls) < MaxCalls
    /\ LET r  == impl_get_guards_in_range(cap, range.start, range.end)
           st == marshal(heap, r.guards, failing)
           panicked == r.panic \/ st.stop = "panic"
           outcome == IF panicked THEN panicOutcome
                      ELSE IF st.stop = "fault" THEN "segv" ELSE "returned"
       IN  /\ failing \subseteq 1 .. (IF r.panic THEN 0 ELSE Len(st.log))
           /\ panicked \/ panicOutcome = "aborted"
           /\ proc' = IF outcome = "returned" THEN "running" ELSE outcome
           /\ heap' = IF r.panic THEN heap ELSE st.heap
           /\ guard' = [guard EXCEPT !.derefAfterFree = @ \/ guard.proxy # "boxed"]
           /\ UNCHANGED << cap, env, cipherCall, trial, mem, threads, opts, lsm, db >>
           /\ calls' = Append(calls,
                 [ start |-> range.start, end |-> range.end,
                   implPanicked |-> r.panic, guards |-> r.guards,
                   total |-> IF r.panic THEN Unset ELSE st.total,
                   lens |-> IF r.panic THEN Unset ELSE st.lens,
                   ret |-> IF outcome = "returned" THEN st.ret ELSE Unset,
                   log |-> IF r.panic THEN <<>> ELSE st.log,
                   nullAccess |-> (~r.panic) /\ st.nullAccess,
                   outcome |-> outcome, released |-> FALSE ])

\* The blocks a returned result hands to the engine: the pointer array, the
\* length array and every key buffer.
ResultBlocks(c) ==
    IF c.outcome # "returned" \/ c.ret = NullPtr THEN <<>>
    ELSE [i \in 1 .. c.total |-> heap[c.ret.blk].data[i]] \o << c.ret.blk, c.lens.blk >>

RECURSIVE clean_all(_, _)
clean_all(h, ms) ==
    IF ms = <<>> THEN h ELSE clean_all(clean_guard(h, Head(ms)), Tail(ms))

\* The engine, done with a result, frees each block through the registered
\* clean_guard callback.
NativeCleanGuards(i) ==
    /\ proc = "running"
    /\ calls[i].outcome = "returned"
    /\ ~calls[i].released
    /\ ResultBlocks(calls[i]) # <<>>
    /\ heap' = clean_all(heap, ResultBlocks(calls[i]))
    /\ calls' = [calls EXCEPT ![i].released = TRUE]
    /\ UNCHANGED << proc, cap, guard, env, cipherCall, trial, mem, threads, opts, lsm, db >>

\* ------------------------------------------------- encryption: creation
\* crocksdb_block_cipher_create(ctx, f_block_size, f_encrypt, f_decrypt,
\* f_destroy_block_cipher)
Crocksdb_block_cipher_create(e) == [e EXCEPT !.cipher = "live"]
\* crocksdb_ctr_encryption_provider_create(cipher)
Crocksdb_ctr_encryption_provider_create(e) == [e EXCEPT !.provider = "live"]
\* crocksdb_create_encrypted_env(base_env, provider)
Crocksdb_create_encrypted_env(e) == [e EXCEPT !.env = "live"]
\* rocksdb::Env::new(inner, Some(provider))
Env_new(e) == [e EXCEPT !.handle = "held"]

\* EncryptionProvider::from_block_cipher(block_cipher)
from_block_cipher(e) == Crocksdb_ctr_encryption_provider_create(e)

\* create_ctr_encrypted_env(env, cipher: Box<IBlockCipher>)
create_ctr_encrypted_env ==
    /\ proc = "running"
    /\ cap \in CipherImpls
    /\ env.handle = "none"
    /\ env' = Env_new(Crocksdb_create_encrypted_env(from_block_cipher(
                 Crocksdb_block_cipher_create([NoEnv EXCEPT !.proxy = "boxed"]))))
    /\ UNCHANGED << proc, cap, guard, heap, calls, cipherCall, trial, mem, threads, opts, lsm, db >>

\* ------------------------------------------------- encryption: teardown
\* extern "C" fn f_destroy_block_cipher(cipher): Box::from_raw drops the proxy.
f_destroy_block_cipher(e) ==
    [e EXCEPT !.proxy = "freed", !.destroyRuns = @ + 1, !.order = Append(@, "proxy")]

\* crocksdb_block_cipher_destroy(cipher): the native cipher is deleted and its
\* destructor invokes the registered destroy trampoline on the context.
Crocksdb_block_cipher_destroy(e) ==
    f_destroy_block_cipher(
        [e EXCEPT !.cipher = "destroyed", !.cipherDestroyCalls = @ + 1,
                  !.order = Append(@, "cipher")])

\* crocksdb_encryption_provider_destroy(provider)
Crocksdb_encryption_provider_destroy(e) ==
    [e EXCEPT !.provider = "destroyed", !.providerDestroyCalls = @ + 1,
              !.order = Append(@, "provider")]

\* crocksdb_env_destroy(env)
Crocksdb_env_destroy(e) ==
    [e EXCEPT !.env = "destroyed", !.envDestroyCalls = @ + 1,
              !.order = Append(@, "env")]

\* impl Drop for BlockCipher
BlockCipher_drop(e) == Crocksdb_block_cipher_destroy(e)

\* Mutant: the owned cipher is released before the provider's destroy call.
EncryptionProvider_drop_cipher_first(e) ==
    Crocksdb_encryption_provider_destroy(BlockCipher_drop(e))

\* impl Drop for EncryptionProvider: drop(), then the field _block_cipher.
EncryptionProvider_drop(e) == BlockCipher_drop(Crocksdb_encryption_provider_destroy(e))

\* Destroying a native object a second time is undefined: the allocator aborts
\* the process or the error goes unnoticed.
DoubleDestroyOutcomes == { "running", "aborted" }

\* rocksdb::Env's teardown: the matching native destroy call, then the
\* provider it holds.  An abort inside the destroy call ends the teardown there.
Env_drop(ub) ==
    /\ proc = "running"
    /\ env.handle = "held"
    /\ proc' = IF env.envDestroyCalls > 0 THEN ub ELSE "running"
    /\ env' = IF proc' = "running"
              THEN [EncryptionProvider_drop(Crocksdb_env_destroy(env)) EXCEPT !.handle = "dropped"]
              ELSE Crocksdb_env_destroy(env)
    /\ UNCHANGED << cap, guard, heap, calls, cipherCall, trial, mem, threads, opts, lsm, db >>

\* destroy_encrypted_env(env: *mut DBEnv), on the pointer the application read
\* from the Env it was given.
destroy_encrypted_env(ub) ==
    /\ proc = "running"
    /\ env.handle # "none"
    /\ env.manualDestroys < MaxManualDestroys
    /\ env' = [Crocksdb_env_destroy(env) EXCEPT !.manualDestroys = @ + 1]
    /\ proc' = IF env'.envDestroyCalls > 1 THEN ub ELSE "running"
    /\ UNCHANGED << cap, guard, heap, calls, cipherCall, trial, mem, threads, opts, lsm, db >>

\* ------------------------------------------------- encryption: trampolines
\* The engine invokes the cipher trampolines through a live provider.
CipherCallable == proc = "running" /\ env.provider = "live" /\ env.cipher = "live"

\* &*(ctx as *mut Box<IBlockCipher>)
deref_cipher(e) == [e EXCEPT !.derefAfterFree = @ \/ e.proxy # "boxed"]

\* Mutant: the slice is built one byte short of block_size().
view_short(region, c) == SubSeq(region, 1, block_size(c) - 1)

\* slice::from_raw_parts_mut(data, cipher.block_size()) and the bytes behind it
view(region, c) == SubSeq(region, 1, block_size(c))
behind(region, c) == SubSeq(region, block_size(c) + 1, Len(region))

\* Mutant: the memory is left as it is, the implementation is not called.
decrypt_at_noop(c, region) == region

\* cipher.encrypt(slice) / cipher.decrypt(slice) on the memory at `data`
encrypt_at(c, region) == encrypt(c, view(region, c)) \o behind(region, c)
decrypt_at(c, region) == decrypt(c, view(region, c)) \o behind(region, c)

\* extern "C" fn f_block_size(ctx)
f_block_size ==
    /\ CipherCallable
    /\ env' = deref_cipher(env)
    /\ cipherCall' = [op |-> "block_size", size |-> block_size(cap),
                      before |-> <<>>, after |-> <<>>]
    /\ UNCHANGED << proc, cap, guard, heap, calls, trial, mem, threads, opts, lsm, db >>

\* extern "C" fn f_encrypt(ctx, data)
f_encrypt(pat) ==
    /\ CipherCallable
    /\ env' = deref_cipher(env)
    /\ LET region == Region(block_size(cap), pat)
       IN  cipherCall' = [op |-> "encrypt", size |-> block_size(cap), before |-> region,
                          after |-> encrypt_at(cap, region)]
    /\ UNCHANGED << proc, cap, guard, heap, calls, trial, mem, threads, opts, lsm, db >>

\* extern "C" fn f_decrypt(ctx, data)
f_decrypt(pat) ==
    /\ CipherCallable
    /\ env' = deref_cipher(env)
    /\ LET region == Region(block_size(cap), pat)
       IN  cipherCall' = [op |-> "decrypt", size |-> block_size(cap), before |-> region,
                          after |-> decrypt_at(cap, region)]
    /\ UNCHANGED << proc, cap, guard, heap, calls, trial, mem, threads, opts, lsm, db >>

Next ==
    \/ \E clones \in 0 .. MaxClones : new_compaction_gurad(clones)
    \/ AppDropClone
    \/ CompactionGuardHandle_drop
    \/ \E range \in RangeArgs, failing \in SUBSET (1 .. MaxGuards + 2),
          panicOutcome \in PanicOutcomes :
          get_guards_in_range(range, failing, panicOutcome)
    \/ \E i \in 1 .. MaxCalls : i <= Len(calls) /\ NativeCleanGuards(i)
    \/ create_ctr_encrypted_env
    \/ \E ub \in DoubleDestroyOutcomes : Env_drop(ub)
    \/ \E ub \in DoubleDestroyOutcomes : destroy_encrypted_env(ub)
    \/ f_block_size
    \/ \E pat \in BytePatterns : f_encrypt(pat)
    \/ \E pat \in BytePatterns : f_decrypt(pat)
Spec == Init /\ [][Next]_vars

\* ------------------------------------------ the block ciphers as functions
\* IBlockCipher::encrypt and ::decrypt applied, in any order, to one block of
\* block_size() bytes.
InitCipher ==
    /\ proc = "running"
    /\ cap \in CipherImpls
    /\ guard = NoGuard
    /\ heap = <<>>
    /\ calls = <<>>
    /\ env = NoEnv
    /\ cipherCall = NoCall
    /\ trial \in { [ops |-> <<>>, vals |-> << b >>] : b \in Blocks(cap) }
    /\ mem = <<>>
    /\ threads = <<>>
    /\ opts = NoOptions
    /\ lsm = NoLsm
    /\ db = NoDb

\* cipher.encrypt(&mut block)
IBlockCipher_encrypt ==
    /\ Len(trial.ops) < MaxOps
    /\ trial' = [ ops |-> Append(trial.ops, "encrypt"),
                  vals |-> Append(trial.vals, encrypt(cap, trial.vals[Len(trial.vals)])) ]
    /\ UNCHANGED << proc, cap, guard, heap, calls, env, cipherCall, mem, threads, opts, lsm, db >>

\* cipher.decrypt(&mut block)
IBlockCipher_decrypt ==
    /\ Len(trial.ops) < MaxOps
    /\ trial' = [ ops |-> Append(trial.ops, "decrypt"),
                  vals |-> Append(trial.vals, decrypt(cap, trial.vals[Len(trial.vals)])) ]
    /\ UNCHANGED << proc, cap, guard, heap, calls, env, cipherCall, mem, threads, opts, lsm, db >>

NextCipher ==
    \/ IBlockCipher_encrypt
    \/ IBlockCipher_decrypt

SpecCipher == InitCipher /\ [][NextCipher]_vars

\* ------------------------------------ cipher trampolines on native threads
\* MaxThreads native threads call f_encrypt / f_decrypt on one registered
\* cipher, each on its own buffer of block_size() bytes; the buffers lie next
\* to each other in `mem`.  A step of a thread is one pass of the
\* implementation's loop over its slice.
ThreadIds == 1 .. MaxThreads
Buffer(t) == (t - 1) * block_size(cap) + 1
Memory(pat) ==
    [a \in 1 .. MaxThreads * block_size(cap) + TailLen |->
        IF pat = "zero" THEN 0 ELSE IF pat = "max" THEN 255 ELSE (a * 37) % 256]
IdleThread ==
    [ pc |-> "idle", op |-> "none", data |-> 0, len |-> 0, i |-> 0,
      before |-> <<>>, overlapped |-> FALSE ]

InitThreads ==
    /\ proc = "running"
    /\ cap \in CipherImpls
    /\ guard = NoGuard
    /\ heap = <<>>
    /\ calls = <<>>
    /\ env = NoEnv
    /\ cipherCall = NoCall
    /\ trial = NoTrial
    /\ mem \in { Memory(pat) : pat \in BytePatterns }
    /\ threads = [t \in ThreadIds |-> IdleThread]
    /\ opts = NoOptions
    /\ lsm = NoLsm
    /\ db = NoDb

\* Mutant: the slice is one byte longer than block_size().
slice_len_long(c) == block_size(c) + 1

\* slice::from_raw_parts_mut(data as *mut u8, cipher.block_size()).len()
slice_len(c) == block_size(c)

\* the body of `for i in 0..data.len()` in encrypt / decrypt, on data[i]
encrypt_byte(c, i, b) ==
    IF c.kind = "ctr16" THEN xor_u8(b, CIPHER16[i + 1])
    ELSE IF b = 255 THEN 0 ELSE b + 1
decrypt_byte(c, i, b) ==
    IF c.kind = "ctr16" THEN encrypt_byte(c, i, b)
    ELSE IF b = 0 THEN 255 ELSE b - 1
\* self.ciphertext[i] is bounds-checked
index_in_bounds(c, i) == c.kind = "ctr16" => i < Len(CIPHER16)

enter(t, op) ==
    /\ CipherCallable
    /\ threads[t].pc = "idle"
    /\ env' = deref_cipher(env)
    /\ threads' = [threads EXCEPT ![t] =
                     [ pc |-> "loop", op |-> op, data |-> Buffer(t),
                       len |-> slice_len(cap), i |-> 0,
                       before |-> SubSeq(mem, Buffer(t), Buffer(t) + block_size(cap) - 1),
                       overlapped |-> FALSE ]]
    /\ UNCHANGED << proc, cap, guard, heap, calls, cipherCall, trial, mem, opts, lsm, db >>

\* thread t enters f_encrypt(ctx, data, size)
Thread_f_encrypt(t) == enter(t, "encrypt")

\* thread t enters f_decrypt(ctx, data, size)
Thread_f_decrypt(t) == enter(t, "decrypt")

\* thread t runs one pass of the implementation's loop, or returns
Thread_loop(t) ==
    LET th == threads[t]
        a  == th.data + th.i
        others == \E u \in ThreadIds : u # t /\ threads[u].pc = "loop" /\ threads[u].i > 0
    IN  /\ proc = "running"
        /\ th.pc = "loop"
        /\ IF th.i = th.len
           THEN /\ threads' = [threads EXCEPT ![t].pc = "done"]
                /\ mem' = mem
           ELSE IF ~ index_in_bounds(cap, th.i)
           THEN /\ threads' = [threads EXCEPT ![t].pc = "panicked"]
                /\ mem' = mem
           ELSE /\ mem' = [mem EXCEPT ![a] = IF th.op = "encrypt"
                                             THEN encrypt_byte(cap, th.i, @)
                                             ELSE decrypt_byte(cap, th.i, @)]
                /\ threads' = [threads EXCEPT ![t].i = @ + 1,
                                              ![t].overlapped = @ \/ others]
        /\ UNCHANGED << proc, cap, guard, heap, calls, env, cipherCall, trial, opts, lsm, db >>

NextThreads ==
    \/ create_ctr_encrypted_env
    \/ \E t \in ThreadIds : Thread_f_encrypt(t)
    \/ \E t \in ThreadIds : Thread_f_decrypt(t)
    \/ \E t \in ThreadIds : Thread_loop(t)

SpecThreads == InitThreads /\ [][NextThreads]_vars

\* ------------------------------------------- Options and compaction filters
\* One Options value from Options::new() to its drop.  set_compaction_filter
\* and the drop take `&mut self` / `self`, so their steps never interleave
\* with another operation on the same value; opts.pc is the position inside
\* the running operation.
InitOptions ==
    /\ proc = "running"
    /\ cap = [kind |-> "filter"]
    /\ guard = NoGuard
    /\ heap = <<>>
    /\ calls = <<>>
    /\ env = NoEnv
    /\ cipherCall = NoCall
    /\ trial = NoTrial
    /\ mem = <<>>
    /\ threads = <<>>
    /\ opts = NoOptions
    /\ lsm = NoLsm
    /\ db = NoDb

\* Options::new() / Options::default()
Options_new ==
    /\ opts.state = "none"
    /\ opts' = [opts EXCEPT !.state = "live", !.native = "live"]
    /\ UNCHANGED << proc, cap, guard, heap, calls, env, cipherCall, trial, mem, threads, lsm, db >>

\* CString::new(name) is Err when the name holds a NUL byte
CString_new(name) ==
    IF \E i \in 1 .. Len(name) : name[i] = 0 THEN "err" ELSE "ok"

\* new_compaction_filter(c_name, ignore_snapshots, filter): a handle that owns
\* a new native filter
new_compaction_filter(o, ignore_snapshots) ==
    [o EXCEPT !.handles = Append(@, [ native |-> "live", drops |-> 0,
                                      installed |-> FALSE, replaced |-> FALSE,
                                      ignore_snapshots |-> ignore_snapshots ]),
              !.pending = Len(o.handles) + 1]

\* impl Drop for CompactionFilterHandle: the native filter is destroyed
CompactionFilterHandle_drop(o, h) ==
    IF h = 0 THEN o
    ELSE [o EXCEPT !.handles[h].native = "destroyed", !.handles[h].drops = @ + 1]

\* Mutant: the replaced handle is forgotten instead of dropped.
assign_filter_forget(o, h) ==
    [ (IF o.filter = 0 THEN o ELSE [o EXCEPT !.handles[o.filter].replaced = TRUE])
        EXCEPT !.filter = h, !.handles[h].installed = TRUE ]

\* self.filter = Some(h): the value the field held is dropped
assign_filter(o, h) ==
    LET old     == o.filter
        dropped == CompactionFilterHandle_drop(o, old)
        marked  == IF old = 0 THEN dropped
                   ELSE [dropped EXCEPT !.handles[old].replaced = TRUE]
    IN  [marked EXCEPT !.filter = h, !.handles[h].installed = TRUE]

\* rocksdb_options_set_compaction_filter(self.inner, filter)
Rocksdb_options_set_compaction_filter(o, h) == [o EXCEPT !.nativeFilter = h]

\* rocksdb_options_destroy(self.inner)
Rocksdb_options_destroy(o) == [o EXCEPT !.native = "destroyed"]

\* set_compaction_filter(name, ignore_snapshots, filter), up to the value of
\* try!(new_compaction_filter(..)): both Err returns leave self untouched.
set_compaction_filter(name, ignore_snapshots, created) ==
    /\ proc = "running"
    /\ opts.state = "live" /\ opts.pc = "idle"
    /\ Len(opts.handles) < MaxFilters
    /\ opts' =
         IF CString_new(name) = "err"
         THEN [opts EXCEPT !.result = "err_name", !.filterBefore = opts.filter]
         ELSE IF ~ created
         THEN [opts EXCEPT !.result = "err_filter", !.filterBefore = opts.filter]
         ELSE [new_compaction_filter(opts, ignore_snapshots)
                  EXCEPT !.pc = "assign", !.result = "running",
                         !.filterBefore = opts.filter]
    /\ UNCHANGED << proc, cap, guard, heap, calls, env, cipherCall, trial, mem, threads, lsm, db >>

\* set_compaction_filter: self.filter = Some(..)
set_compaction_filter_assign ==
    /\ opts.pc = "assign"
    /\ opts' = [assign_filter(opts, opts.pending) EXCEPT !.pc = "native"]
    /\ UNCHANGED << proc, cap, guard, heap, calls, env, cipherCall, trial, mem, threads, lsm, db >>

\* set_compaction_filter: rocksdb_options_set_compaction_filter(..); Ok(())
set_compaction_filter_native ==
    /\ opts.pc = "native"
    /\ opts' = [Rocksdb_options_set_compaction_filter(opts, opts.filter)
                   EXCEPT !.pc = "idle", !.pending = 0, !.result = "ok"]
    /\ UNCHANGED << proc, cap, guard, heap, calls, env, cipherCall, trial, mem, threads, lsm, db >>

\* impl Drop for Options: drop(&mut self)
Options_drop ==
    /\ opts.state = "live" /\ opts.pc = "idle"
    /\ opts' = [Rocksdb_options_destroy(opts) EXCEPT !.state = "dropping", !.pc = "fields"]
    /\ UNCHANGED << proc, cap, guard, heap, calls, env, cipherCall, trial, mem, threads, lsm, db >>

\* the drop of Options' fields after Drop::drop: `filter`
Options_drop_fields ==
    /\ opts.pc = "fields"
    /\ opts' = [CompactionFilterHandle_drop(opts, opts.filter)
                   EXCEPT !.state = "dropped", !.pc = "idle"]
    /\ UNCHANGED << proc, cap, guard, heap, calls, env, cipherCall, trial, mem, threads, lsm, db >>

NextOptions ==
    \/ Options_new
    \/ \E name \in FilterNames, ignore_snapshots \in BOOLEAN, created \in BOOLEAN :
          set_compaction_filter(name, ignore_snapshots, created)
    \/ set_compaction_filter_assign
    \/ set_compaction_filter_native
    \/ Options_drop
    \/ Options_drop_fields

SpecOptions == InitOptions /\ [][NextOptions]_vars

\* ------------------------------------------ compaction with a guard
\* tests/cases/test_compaction_guard.rs: a column family with a registered
\* guard is written, flushed into level-0 files and range-compacted.  The
\* engine asks the guard for its keys through get_guards_in_range, reads them
\* back from the returned arrays, frees them, and starts a new output file at
\* every guard.
\* samples: k1 .. k9
Samples == { << 107, 48 + d >> : d \in 1 .. 9 }
\* keys on one side of k5 only: k1 .. k3
LowSamples == { << 107, 48 + d >> : d \in 1 .. 3 }
Batches == { Samples, LowSamples }

\* the engine's bytewise comparator: a < b
RECURSIVE bytes_less(_, _)
bytes_less(a, b) ==
    IF b = <<>> THEN FALSE
    ELSE IF a = <<>> THEN TRUE
    ELSE IF Head(a) # Head(b) THEN Head(a) < Head(b)
    ELSE bytes_less(Tail(a), Tail(b))

InitCompaction ==
    /\ proc = "running"
    /\ cap \in GuardImpls
    /\ guard = NoGuard
    /\ heap = <<>>
    /\ calls = <<>>
    /\ env = NoEnv
    /\ cipherCall = NoCall
    /\ trial = NoTrial
    /\ mem = <<>>
    /\ threads = <<>>
    /\ opts = NoOptions
    /\ lsm = NoLsm
    /\ db = NoDb

\* for (k, v) in samples { db.put(k, v) }
DB_put(batch) ==
    /\ proc = "running"
    /\ guard.native = "live"
    /\ lsm.memtable = {}
    /\ Len(lsm.l0) < MaxL0Files
    /\ lsm' = [lsm EXCEPT !.memtable = batch]
    /\ UNCHANGED << proc, cap, guard, heap, calls, env, cipherCall, trial, mem, threads, opts, db >>

\* db.flush(true): the memtable becomes one more level-0 file
DB_flush ==
    /\ proc = "running"
    /\ lsm.memtable # {}
    /\ lsm' = [lsm EXCEPT !.l0 = Append(@, lsm.memtable), !.memtable = {}]
    /\ UNCHANGED << proc, cap, guard, heap, calls, env, cipherCall, trial, mem, threads, opts, db >>

\* What the engine reads through the returned pointer, *total and *lens.
NativeReadGuards(c) ==
    IF c.ret = NullPtr THEN <<>>
    ELSE [k \in 1 .. c.total |->
            SubSeq(heap[heap[c.ret.blk].data[c.ret.off + k]].data, 1,
                   heap[c.lens.blk].data[c.lens.off + k])]

\* The output files of a compaction of `keys`: a new file starts at every
\* guard, so a key's file is told by the guards that are not above it.
SplitAtGuards(keys, guards) ==
    LET G == { guards[k] : k \in 1 .. Len(guards) }
        below(key) == { g \in G : ~ bytes_less(key, g) }
    IN  { { key \in keys : below(key) = B } : B \in SUBSET G } \ { {} }

\* db.compact_range(None, None), the engine's side after the guard has
\* answered: level 0 and level 1 are merged into new level-1 files.
DB_compact_range ==
    LET n == Len(calls)
        c == calls[n]
        guards == NativeReadGuards(c)
        keys == UNION { lsm.l0[k] : k \in 1 .. Len(lsm.l0) } \cup UNION lsm.l1
    IN  /\ proc = "running"
        /\ n = lsm.consumed + 1
        /\ c.outcome = "returned"
        /\ lsm.l0 # <<>> /\ lsm.memtable = {}
        /\ heap' = clean_all(heap, ResultBlocks(c))
        /\ calls' = [calls EXCEPT ![n].released = ResultBlocks(c) # <<>>]
        /\ lsm' = [lsm EXCEPT !.l0 = <<>>, !.l1 = SplitAtGuards(keys, guards),
                              !.guards = guards,
                              !.inputs = [l0 |-> lsm.l0, l1 |-> lsm.l1],
                              !.compactions = @ + 1, !.consumed = n]
        /\ UNCHANGED << proc, cap, guard, env, cipherCall, trial, mem, threads, opts, db >>

\* db.compact_range(None, None), the engine's call of the guard
CompactionAsksGuard(panicOutcome) ==
    /\ Len(calls) = lsm.consumed
    /\ lsm.l0 # <<>> /\ lsm.memtable = {}
    /\ get_guards_in_range([start |-> <<>>, end |-> <<>>], {}, panicOutcome)

NextCompaction ==
    \/ new_compaction_gurad(0)
    \/ \E batch \in Batches : DB_put(batch)
    \/ DB_flush
    \/ \E panicOutcome \in PanicOutcomes : CompactionAsksGuard(panicOutcome)
    \/ DB_compact_range

SpecCompaction == InitCompaction /\ [][NextCompaction]_vars

\* ------------------------------------------ a database on the encrypted env
\* tests/cases/test_encryption.rs, test_encrypted_env: a database is opened
\* on the env of create_ctr_encrypted_env, written, read, flushed, closed and
\* opened again.  Every byte the engine stores goes through the env, which
\* uses the registered block cipher: either as a keystream generator (the
\* block at a file position is XORed with the encryption of that position's
\* counter block, for writes and reads alike) or directly (encrypt on write,
\* decrypt on read).  A behaviour follows one of the two compositions.
Compositions == { "counter", "direct" }
\* the values put: a block of 255s and a block of different bytes
DbValues(c) ==
    { SubSeq(Region(block_size(c), pat), 1, block_size(c)) : pat \in { "max", "ramp" } }

\* the counter block of file position n
CounterBlock(c, n) == [j \in 1 .. block_size(c) |-> (n * 16 + j) % 256]
xor_block(a, b) == [j \in 1 .. Len(a) |-> xor_u8(a[j], b[j])]
KeyStream(c, n) == view(encrypt_at(c, CounterBlock(c, n)), c)

\* the env writes / reads one block at file position n
EnvWrite(comp, c, n, plain) ==
    IF comp = "counter" THEN xor_block(plain, KeyStream(c, n))
    ELSE encrypt_at(c, plain)
EnvRead(comp, c, n, stored) ==
    IF comp = "counter" THEN xor_block(stored, KeyStream(c, n))
    ELSE decrypt_at(c, stored)

\* the position of a key's block in the table file
SstPosition(k) == IF k = "key1" THEN 1 ELSE 2

\* the last write-ahead-log record of key k, decrypted; NoValue if there is none
RECURSIVE WalReplay(_, _, _, _)
WalReplay(comp, c, wal, k) ==
    IF wal = <<>> THEN NoValue
    ELSE LET n == Len(wal)
         IN  IF wal[n].key = k THEN EnvRead(comp, c, n, wal[n].stored)
             ELSE WalReplay(comp, c, SubSeq(wal, 1, n - 1), k)

InitEncryptedDb ==
    /\ proc = "running"
    /\ cap \in CipherImpls
    /\ guard = NoGuard
    /\ heap = <<>>
    /\ calls = <<>>
    /\ env = NoEnv
    /\ cipherCall = NoCall
    /\ trial = NoTrial
    /\ mem = <<>>
    /\ threads = <<>>
    /\ opts = NoOptions
    /\ lsm = NoLsm
    /\ db \in { [NoDb EXCEPT !.composition = comp] : comp \in Compositions }

\* DB::open(opts, path) with opts.set_env(encrypted_env): the memtable is
\* rebuilt from the write-ahead log
DB_open ==
    /\ CipherCallable
    /\ ~ db.open
    /\ db.opens < MaxOpens
    /\ db' = [db EXCEPT !.open = TRUE, !.opens = @ + 1, !.got = NoGet,
                        !.memtable = [k \in DbKeys |->
                                         WalReplay(db.composition, cap, db.wal, k)]]
    /\ UNCHANGED << proc, cap, guard, heap, calls, env, cipherCall, trial, mem, threads, opts, lsm >>

\* db.put(k, v)
DB_put_value(k, v) ==
    /\ CipherCallable
    /\ db.open
    /\ Len(db.wal) < MaxWalRecords
    /\ db' = [db EXCEPT !.wal = Append(@, [ key |-> k,
                                            stored |-> EnvWrite(db.composition, cap,
                                                                Len(db.wal) + 1, v) ]),
                        !.memtable[k] = v,
                        !.put[k] = v,
                        !.got = NoGet]
    /\ UNCHANGED << proc, cap, guard, heap, calls, env, cipherCall, trial, mem, threads, opts, lsm >>

\* db.get(k)
DB_get(k) ==
    /\ CipherCallable
    /\ db.open
    /\ db' = [db EXCEPT !.got =
                 [ key |-> k,
                   value |-> IF db.memtable[k] # NoValue THEN db.memtable[k]
                             ELSE IF db.sst[k] # NoValue
                             THEN EnvRead(db.composition, cap, SstPosition(k), db.sst[k])
                             ELSE NoValue,
                   expected |-> db.put[k],
                   from |-> IF db.memtable[k] # NoValue THEN "memtable"
                            ELSE IF db.sst[k] # NoValue THEN "sst" ELSE "none",
                   opens |-> db.opens ]]
    /\ UNCHANGED << proc, cap, guard, heap, calls, env, cipherCall, trial, mem, threads, opts, lsm >>

\* db.flush(true): the memtable goes to the table file, the log is dropped
DB_flush_memtable ==
    /\ CipherCallable
    /\ db.open
    /\ \E k \in DbKeys : db.memtable[k] # NoValue
    /\ db' = [db EXCEPT !.sst = [k \in DbKeys |->
                                    IF db.memtable[k] # NoValue
                                    THEN EnvWrite(db.composition, cap, SstPosition(k),
                                                  db.memtable[k])
                                    ELSE @[k]],
                        !.memtable = [k \in DbKeys |-> NoValue],
                        !.wal = <<>>,
                        !.got = NoGet]
    /\ UNCHANGED << proc, cap, guard, heap, calls, env, cipherCall, trial, mem, threads, opts, lsm >>

\* drop(db)
DB_close ==
    /\ db.open
    /\ db' = [db EXCEPT !.open = FALSE, !.memtable = [k \in DbKeys |-> NoValue],
                        !.got = NoGet]
    /\ UNCHANGED << proc, cap, guard, heap, calls, env, cipherCall, trial, mem, threads, opts, lsm >>

NextEncryptedDb ==
    \/ create_ctr_encrypted_env
    \/ DB_open
    \/ \E k \in DbKeys : \E v \in DbValues(cap) : DB_put_value(k, v)
    \/ \E k \in DbKeys : DB_get(k)
    \/ DB_flush_memtable
    \/ DB_close

SpecEncryptedDb == InitEncryptedDb /\ [][NextEncryptedDb]_vars

\* ================================================================ claims
CallIds == 1 .. Len(calls)
NonEmptyKeys(g) == \A i \in 1 .. Len(g) : g[i] # <<>>
SiteCount(c, site) == Cardinality({ j \in 1 .. Len(c.log) : c.log[j].site = site })

\* C1: each proxy's destroy trampoline runs at most once, has run exactly once
\* when the handle / Env that owns the native object has been torn down, runs
\* exactly when the proxy is freed, and no trampoline dereferences a proxy that
\* has been destroyed.
C1_DestroyExactlyOnce ==
    /\ guard.destructorRuns <= 1
    /\ env.destroyRuns <= 1
    /\ (guard.handle = "dropped" => guard.destructorRuns = 1)
    /\ (env.handle = "dropped" => env.destroyRuns = 1)
    /\ (guard.proxy = "freed" <=> guard.destructorRuns = 1)
    /\ (env.proxy = "freed" <=> env.destroyRuns = 1)
    /\ ~guard.derefAfterFree
    /\ ~env.derefAfterFree

\* C1 witness: an Env torn down after a cipher trampoline ran on its proxy.
C1_Witness ==
    /\ env.handle = "dropped"
    /\ env.destroyRuns = 1
    /\ cipherCall.op = "encrypt"

\* C2 (as claimed): every native resource receives its destroy call at most
\* once, and exactly once when the owning handle has been torn down.
C2_ReleasedExactlyOnce ==
    /\ guard.nativeDestroyCalls <= 1
    /\ env.cipherDestroyCalls <= 1
    /\ env.providerDestroyCalls <= 1
    /\ env.envDestroyCalls <= 1
    /\ (guard.handle = "dropped" => guard.nativeDestroyCalls = 1)
    /\ (env.handle = "dropped" =>
            /\ env.cipherDestroyCalls = 1
            /\ env.providerDestroyCalls = 1
            /\ env.envDestroyCalls = 1)

\* C3: a call whose implementation returns no guard writes 0 to out_count,
\* returns null and makes no allocator call.
C3_EmptyResult ==
    \A i \in CallIds :
        LET c == calls[i]
        IN  (~c.implPanicked /\ c.guards = <<>>) =>
                /\ c.outcome = "returned"
                /\ c.total = 0
                /\ c.ret = NullPtr
                /\ c.log = <<>>

\* C3 witness: a returned call of an implementation with an empty guard list.
C3_Witness ==
    \E i \in CallIds :
        /\ ~calls[i].implPanicked
        /\ calls[i].guards = <<>>
        /\ calls[i].outcome = "returned"

\* C4: a returned call with N > 0 non-empty guards reports N, returns the base
\* of an array of N pointers and sets *lens to the base of an array of N
\* lengths; the i-th buffer is a fresh block that holds exactly g[i], and
\* lens[i] is its length, in the implementation's order.
C4_Marshalled ==
    \A i \in CallIds :
        LET c == calls[i]
            g == c.guards
        IN  (c.outcome = "returned" /\ Len(g) > 0 /\ NonEmptyKeys(g) /\ ~c.released) =>
                /\ c.total = Len(g)
                /\ c.ret.blk # NULL /\ c.ret.off = 0
                /\ c.lens.blk # NULL /\ c.lens.off = 0
                /\ heap[c.ret.blk].site = "res"
                /\ heap[c.lens.blk].site = "lens"
                /\ Len(heap[c.ret.blk].data) = Len(g)
                /\ Len(heap[c.lens.blk].data) = Len(g)
                /\ \A k \in 1 .. Len(g) :
                      LET buf == heap[c.ret.blk].data[k]
                      IN  /\ buf \in 1 .. Len(heap)
                          /\ heap[buf].site = "key"
                          /\ heap[buf].data = g[k]
                          /\ heap[c.lens.blk].data[k] = Len(g[k])
                /\ Cardinality({ heap[c.ret.blk].data[k] : k \in 1 .. Len(g) }) = Len(g)

\* C4 witness: a returned call with two different non-empty guards.
C4_Witness ==
    \E i \in CallIds :
        /\ calls[i].outcome = "returned"
        /\ Len(calls[i].guards) >= 2
        /\ NonEmptyKeys(calls[i].guards)
        /\ calls[i].guards[1] # calls[i].guards[2]

\* C5 (as claimed): a call whose implementation panics returns normally with
\* the empty result.
C5_PanicIntercepted ==
    \A i \in CallIds :
        calls[i].implPanicked =>
            /\ calls[i].outcome = "returned"
            /\ calls[i].ret = NullPtr
            /\ calls[i].total = 0

\* C6 (as claimed): a call in which an allocator call returned null ends
\* without any access through the null pointer: it neither faults on it nor
\* returns.
C6_NullAllocAborts ==
    \A i \in CallIds :
        LET c == calls[i]
        IN  (\E j \in 1 .. Len(c.log) : c.log[j].addr = NULL) =>
                /\ ~c.nullAccess
                /\ c.outcome \notin { "segv", "returned" }

\* C7: a call whose guard list holds an empty key never returns normally,
\* never asks the allocator for a key buffer of size 0, and forwards no key at
\* or behind the first empty one.
C7_EmptyKeyRejected ==
    \A i \in CallIds :
        LET c == calls[i]
            g == c.guards
            firstEmpty == CHOOSE k \in 1 .. Len(g) :
                              g[k] = <<>> /\ \A m \in 1 .. k - 1 : g[m] # <<>>
        IN  (~c.implPanicked /\ ~NonEmptyKeys(g)) =>
                /\ c.outcome # "returned"
                /\ \A j \in 1 .. Len(c.log) : c.log[j].site = "key" => c.log[j].size > 0
                /\ SiteCount(c, "key") < firstEmpty

\* C7 witness: a list with an empty key behind a non-empty one; the assertion
\* stopped the call after the first key was copied.
C7_Witness ==
    \E i \in CallIds :
        /\ Len(calls[i].guards) >= 2
        /\ calls[i].guards[1] # <<>>
        /\ calls[i].guards[2] = <<>>
        /\ calls[i].outcome \in PanicOutcomes
        /\ SiteCount(calls[i], "key") = 1

\* C8 (as claimed): once the guard's destroy trampoline has run, the
\* implementation is reclaimed (no Arc reference to it is left).
C8_ImplReclaimedAtDestroy ==
    guard.destructorRuns > 0 => guard.strong = 0

\* C9: a call whose implementation returns N > 0 guards makes exactly one
\* pointer-array allocation and exactly one length-array allocation, whatever N.
C9_OneArrayAllocationEach ==
    \A i \in CallIds :
        LET c == calls[i]
        IN  (~c.implPanicked /\ Len(c.guards) > 0) =>
                /\ SiteCount(c, "res") = 1
                /\ SiteCount(c, "lens") = 1
                /\ c.log[1].size = Len(c.guards) * PtrSize
                /\ c.log[2].size = Len(c.guards) * U32Size

\* C9 witness: a returned call with the longest guard list: N key buffers and
\* the two arrays.
C9_Witness ==
    \E i \in CallIds :
        /\ calls[i].outcome = "returned"
        /\ Len(calls[i].guards) = MaxGuards
        /\ Len(calls[i].log) = MaxGuards + 2

\* C10: every block of a returned result comes from libc malloc, is untouched
\* by free when the trampoline returns, is freed at most once and only by libc
\* free, and belongs to no other call's result.
C10_SameAllocator ==
    \A i \in CallIds :
        LET c == calls[i]
            blocks == ResultBlocks(c)
        IN  /\ \A k \in 1 .. Len(blocks) :
                  LET b == heap[blocks[k]]
                  IN  /\ b.family = LibcFamily
                      /\ Len(b.frees) <= 1
                      /\ \A f \in 1 .. Len(b.frees) : b.frees[f] = LibcFamily
                      /\ (~c.released => b.frees = <<>>)
            /\ Cardinality({ blocks[k] : k \in 1 .. Len(blocks) }) = Len(blocks)
            /\ \A j \in CallIds \ {i} :
                  { blocks[k] : k \in 1 .. Len(blocks) } \cap
                  { ResultBlocks(calls[j])[k] : k \in 1 .. Len(ResultBlocks(calls[j])) } = {}

\* C10 witness: a result with key buffers that the engine has released.
C10_Witness ==
    \E i \in CallIds :
        /\ calls[i].released
        /\ Len(ResultBlocks(calls[i])) >= 3
        /\ \A k \in 1 .. Len(ResultBlocks(calls[i])) :
              heap[ResultBlocks(calls[i])[k]].frees = << LibcFamily >>

\* C11: an f_encrypt / f_decrypt call passes the implementation the first
\* block_size() bytes at the data pointer, leaves the region's length as it
\* was, replaces exactly those bytes by the implementation's transform of them
\* and leaves every byte behind them unchanged.
C11_BlockFrame ==
    cipherCall.op \in { "encrypt", "decrypt" } =>
        LET n == block_size(cap)
            b == cipherCall.before
            a == cipherCall.after
        IN  /\ cipherCall.size = n
            /\ Len(a) = Len(b)
            /\ \A i \in n + 1 .. Len(b) : a[i] = b[i]
            /\ SubSeq(a, 1, n) = IF cipherCall.op = "encrypt"
                                 THEN encrypt(cap, SubSeq(b, 1, n))
                                 ELSE decrypt(cap, SubSeq(b, 1, n))

\* C11 witness: an encrypt call that changed every byte of the block and left
\* non-zero bytes behind it untouched.
C11_Witness ==
    /\ cipherCall.op = "encrypt"
    /\ \A i \in 1 .. cipherCall.size : cipherCall.after[i] # cipherCall.before[i]
    /\ \A i \in cipherCall.size + 1 .. Len(cipherCall.before) :
          cipherCall.after[i] = cipherCall.before[i] /\ cipherCall.before[i] # 0

\* The guard keys and lengths the engine reads back from a returned result.
ReadBack(c) ==
    [k \in 1 .. c.total |->
        [ key |-> heap[heap[c.ret.blk].data[c.ret.off + k]].data,
          len |-> heap[c.lens.blk].data[c.lens.off + k] ]]
KeyBuffers(c) ==
    IF c.ret = NullPtr THEN {} ELSE { heap[c.ret.blk].data[c.ret.off + k] : k \in 1 .. c.total }
ArrayBlocks(c) ==
    IF c.ret = NullPtr THEN {} ELSE { c.ret.blk, c.lens.blk }

\* C16: two returned calls with the same start and end report the same count
\* and the same keys and lengths in the same order, and no block of one
\* result is a block of the other.
C16_Deterministic ==
    \A i \in CallIds : \A j \in CallIds :
        LET c == calls[i]
            d == calls[j]
        IN  ( /\ i < j
              /\ c.outcome = "returned" /\ d.outcome = "returned"
              /\ c.start = d.start /\ c.end = d.end ) =>
                /\ c.total = d.total
                /\ (c.ret = NullPtr) = (d.ret = NullPtr)
                /\ (c.ret # NullPtr => ReadBack(c) = ReadBack(d))
                /\ (KeyBuffers(c) \cup ArrayBlocks(c)) \cap
                   (KeyBuffers(d) \cup ArrayBlocks(d)) = {}

\* C16 witness: two returned calls with the same arguments and two guards each.
C16_Witness ==
    \E i \in CallIds : \E j \in CallIds :
        /\ i < j
        /\ calls[i].outcome = "returned" /\ calls[j].outcome = "returned"
        /\ calls[i].start = calls[j].start /\ calls[i].end = calls[j].end
        /\ calls[i].total >= 2 /\ calls[j].total >= 2

Position(seq, x) == CHOOSE k \in 1 .. Len(seq) : seq[k] = x
Occurs(seq, x) == \E k \in 1 .. Len(seq) : seq[k] = x

\* C18: in an Env's teardown the provider's destroy call comes before the
\* cipher's, which comes before the cipher proxy's destroy trampoline; the
\* proxy is never freed while the native provider is live.
C18_ProviderBeforeCipher ==
    /\ Occurs(env.order, "cipher") =>
          /\ Occurs(env.order, "provider")
          /\ Position(env.order, "provider") < Position(env.order, "cipher")
    /\ Occurs(env.order, "proxy") =>
          /\ Occurs(env.order, "cipher")
          /\ Position(env.order, "cipher") < Position(env.order, "proxy")
    /\ (env.proxy = "freed" => env.provider = "destroyed")
    /\ (env.cipher = "destroyed" => env.provider = "destroyed")

\* C18 witness: a torn-down Env on whose cipher the engine had called f_decrypt.
C18_Witness ==
    /\ env.handle = "dropped"
    /\ env.proxy = "freed"
    /\ Occurs(env.order, "provider")
    /\ cipherCall.op = "decrypt"

\* C12: on every block, decrypt after encrypt and encrypt after decrypt give
\* the block back, for SimpleBlockCipher and for CTR16BlockCipher; for
\* CTR16BlockCipher two encrypts in a row give the block back as well.
C12_RoundTrip ==
    \A k \in 1 .. Len(trial.ops) - 1 :
        /\ (trial.ops[k] # trial.ops[k + 1] => trial.vals[k + 2] = trial.vals[k])
        /\ ( ( /\ cap = CTR16BlockCipher
               /\ trial.ops[k] = "encrypt" /\ trial.ops[k + 1] = "encrypt" ) =>
                  trial.vals[k + 2] = trial.vals[k] )

\* C12 witness: a block holding the byte 255 went through encrypt (which wraps
\* it to 0) and then decrypt.
C12_Witness ==
    /\ cap.kind = "simple"
    /\ Len(trial.ops) >= 2
    /\ trial.ops[1] = "encrypt" /\ trial.ops[2] = "decrypt"
    /\ \E i \in 1 .. Len(trial.vals[1]) : trial.vals[1][i] = 255 /\ trial.vals[2][i] = 0

\* C15: when threads run f_encrypt / f_decrypt at the same time on one cipher
\* and disjoint buffers, no call panics and every returned call leaves in its
\* buffer what the implementation's encrypt / decrypt gives on the bytes the
\* buffer held when the call began.
C15_ThreadsIndependent ==
    \A t \in DOMAIN threads :
        LET th == threads[t]
            now == SubSeq(mem, th.data, th.data + block_size(cap) - 1)
        IN  /\ th.pc # "panicked"
            /\ th.pc = "done" =>
                  now = IF th.op = "encrypt" THEN encrypt(cap, th.before)
                        ELSE decrypt(cap, th.before)
            /\ th.pc = "idle" => \A u \in DOMAIN threads : threads[u].pc # "idle" =>
                  \A k \in 0 .. threads[u].len - 1 :
                      threads[u].data + k \notin Buffer(t) .. Buffer(t) + block_size(cap) - 1

\* C15 witness: two calls that ran interleaved, an encrypt and a decrypt,
\* have both returned.
C15_Witness ==
    \E t \in DOMAIN threads : \E u \in DOMAIN threads :
        /\ threads[t].pc = "done" /\ threads[u].pc = "done"
        /\ threads[t].op = "encrypt" /\ threads[u].op = "decrypt"
        /\ threads[t].overlapped /\ threads[u].overlapped

HandleIds == 1 .. Len(opts.handles)

\* C17: a filter handle installed by set_compaction_filter is dropped at most
\* once; it has been dropped exactly when a later successful call replaced it
\* or the Options is dropped; once the Options is dropped every installed
\* handle has been dropped once; and after a call that returned Err the
\* filter installed before the call is still installed and undropped.
C17_FilterDroppedOnce ==
    /\ \A h \in HandleIds :
          LET hd == opts.handles[h]
          IN  /\ hd.drops <= 1
              /\ hd.installed =>
                    ( hd.drops = 1 <=>
                        (hd.replaced \/ (opts.state = "dropped" /\ opts.filter = h)) )
              /\ (opts.state = "dropped" /\ hd.installed) => hd.drops = 1
    /\ opts.result \in { "err_name", "err_filter" } /\ opts.state = "live" =>
          /\ opts.filter = opts.filterBefore
          /\ opts.nativeFilter = opts.filterBefore
          /\ opts.filter # 0 => opts.handles[opts.filter].drops = 0

\* C17 witness: the Options has been dropped after one filter replaced
\* another and a later call returned Err.
C17_Witness ==
    /\ opts.state = "dropped"
    /\ opts.result \in { "err_name", "err_filter" }
    /\ opts.filterBefore # 0
    /\ \E h \in HandleIds : opts.handles[h].replaced
    /\ \E h \in HandleIds : opts.handles[h].installed /\ ~ opts.handles[h].replaced

\* C19: in every state of an Options, the states inside set_compaction_filter
\* and the drop included, the filter pointer of live native options is null
\* or points at a filter that has not been destroyed.
C19_FilterPointerLive ==
    ( opts.native = "live" /\ opts.nativeFilter # 0 ) =>
        opts.handles[opts.nativeFilter].native = "live"

\* C14: after a range compaction with a registered guard, the engine was
\* given the implementation's guards, every input key is in an output file,
\* no output file holds a key below a guard and a key above it, and with the
\* single guard k5 and two level-0 files of k1 .. k9 each there are exactly
\* two level-1 files.
C14_GuardSplitsOutput ==
    lsm.compactions > 0 =>
        /\ lsm.guards = cap.guards
        /\ UNION lsm.l1 = UNION { lsm.inputs.l0[k] : k \in 1 .. Len(lsm.inputs.l0) }
                            \cup UNION lsm.inputs.l1
        /\ \A f \in lsm.l1 : \A k \in 1 .. Len(lsm.guards) :
              ~ \E a \in f : \E b \in f :
                    bytes_less(a, lsm.guards[k]) /\ bytes_less(lsm.guards[k], b)
        /\ ( /\ cap = SimpleGuards(<< << 107, 53 >> >>)
             /\ lsm.inputs = [l0 |-> << Samples, Samples >>, l1 |-> {}] ) =>
                Cardinality(lsm.l1) = 2

\* C14 witness: the test's run: guard k5, k1 .. k9 flushed twice, compacted
\* into k1 .. k4 and k5 .. k9.
C14_Witness ==
    /\ cap = SimpleGuards(<< << 107, 53 >> >>)
    /\ lsm.compactions = 1
    /\ lsm.inputs = [l0 |-> << Samples, Samples >>, l1 |-> {}]
    /\ lsm.l1 = { { << 107, 48 + d >> : d \in 1 .. 4 }, { << 107, 48 + d >> : d \in 5 .. 9 } }

\* C13: on a database opened on the encrypted env, every get(k) returns the
\* value last put for k (nothing if there was none), whether the value comes
\* from memory, from the flushed table file or from the log after a close and
\* reopen.
C13_GetReturnsLastPut ==
    db.got.key # "none" => db.got.value = db.got.expected

\* C13 witness: after a close and reopen, a get returned a value holding the
\* byte 255 that it read from the flushed file.
C13_Witness ==
    /\ db.got.key # "none"
    /\ db.got.opens >= 2
    /\ db.got.from = "sst"
    /\ db.composition = "direct"
    /\ \E j \in 1 .. Len(db.got.value) : db.got.value[j] = 255

====
